---- MODULE Spec2Model ----
(***************************************************************************)
(* A model of the IPA transcription tokenizer of ipa_features              *)
(* (src/src/ipa_features/ipa_map.py): the element classifier               *)
(* (PhoElement, classify), the segment accumulator (ipa_parser) and the    *)
(* segment data type (PhoSegment).                                         *)
(*                                                                         *)
(* A string is a sequence of one-character strings.  The characters of    *)
(* the model are ASCII stand-ins for the graphemes the tests use:         *)
(*   "t"  a base consonant        (p, t, k, ...)                          *)
(*   "b"  an implosive            (U+0253)                                *)
(*   "!"  a click                 (U+01C3)                                *)
(*   "o"  a base vowel            (a, o, u, ...)                          *)
(*   "n"  a left diacritic        (U+207F superscript n, role             *)
(*                                  diacritic_left)                        *)
(*   "h"  a right diacritic       (U+02B0 superscript h, role             *)
(*                                  diacritic_right)                       *)
(*   "^"  the ligature tie        (U+0361, role compound_right)           *)
(*   "."  the syllable boundary   (role boundary)                         *)
(*   "'"  the primary stress mark (U+02C8, role stress)                   *)
(*   "-"  the role switcher       (U+0335)                                *)
(*   "%"  a record of role base whose Type is none of Consonant,         *)
(*        Implosive, Click, Vowel                                         *)
(*   "~"  a record whose Role is none of the six roles classify names    *)
(*   "?"  a character that IPA_Symbol_Table.csv does not hold (U+0402)    *)
(*   " ", "\t"  whitespace;  "[", "]", "\\", "/"  transcription delimiters*)
(***************************************************************************)
EXTENDS Integers, Sequences, FiniteSets, TLC

VARIABLES
    input_is_str,       \* type(input_str) == str
    input_str,          \* the argument of ipa_parser
    pc,                 \* "start", "scan", "done"
    chars,              \* input_str.strip(), the string the for loop walks
    i,                  \* number of characters of chars already consumed
    transcript_memory,
    seg_memory,
    last_char_memory,
    has_base,
    word_count,
    result,             \* what the call returned or raised
    op,                 \* the function the caller calls
    api_pc,             \* "start", "constructed", "loop", "done"
    arg_string,         \* the argument of PhoElement
    arg_components,     \* the argument of PhoSegment
    element,            \* the PhoElement classify is called on
    ipa_parser_list,    \* the list segment_generator and get_bases walk
    seg_index,          \* number of entries of ipa_parser_list already walked
    collected,          \* the segments yielded so far, or bases_list
    api_result,         \* what the caller got
    input_isinstance_str, \* isinstance(input_str, str): str or a subclass
    calls               \* the calls of ipa_parser that run side by side

\* The variables of a call of ipa_parser.
parserVars == <<input_is_str, input_str, pc, chars, i, transcript_memory,
                seg_memory, last_char_memory, has_base, word_count, result>>

\* The variables of a call of classify, PhoSegment, segment_generator or
\* get_bases.
apiVars == <<op, input_isinstance_str, api_pc, arg_string, arg_components,
             element, ipa_parser_list,
             seg_index, collected, api_result>>

\* The variables of the calls of ipa_parser that run side by side.
parVars == <<calls>>

vars == <<parserVars, apiVars, parVars>>

\* Longest input string of the model.
MaxLen == 4

\* Longest component list PhoSegment is built from.
MaxComponents == 3

\* Longest input of the calls of ipa_parser that run side by side.
MaxParLen == 3

----------------------------------------------------------------------------
(* Characters *)

\* str.isspace() on the whitespace characters of the model.
Whitespace == {" ", "\t"}

IsSpace(s) == s \in Whitespace

\* The character class of re.sub(r"[\[\]\\\/]", " ", input_str).
Delimiters == {"[", "]", "\\", "/"}

\* The role switcher (U+0335) tested for at the top of ipa_parser.
RoleSwitcher == "-"

\* IPA_Symbol_Table.csv, indexed by Symbol: the columns Type and Role.
ipa_df ==
    [c \in {"t", "b", "!", "o", "n", "h", "^", ".", "'", "%", "~"} |->
        CASE c = "t" -> [Type |-> "Consonant",      Role |-> "base"]
          [] c = "b" -> [Type |-> "Implosive",      Role |-> "base"]
          [] c = "!" -> [Type |-> "Click",          Role |-> "base"]
          [] c = "o" -> [Type |-> "Vowel",          Role |-> "base"]
          [] c = "n" -> [Type |-> "Diacritic",      Role |-> "diacritic_left"]
          [] c = "h" -> [Type |-> "Diacritic",      Role |-> "diacritic_right"]
          [] c = "^" -> [Type |-> "Diacritic",      Role |-> "compound_right"]
          [] c = "." -> [Type |-> "Suprasegmental", Role |-> "boundary"]
          [] c = "'" -> [Type |-> "Suprasegmental", Role |-> "stress"]
          [] c = "%" -> [Type |-> "Other",          Role |-> "base"]
          [] c = "~" -> [Type |-> "Diacritic",      Role |-> "diacritic_role-switcher"]]

\* ipa_df.index
IpaIndex == DOMAIN ipa_df

\* The characters input strings are made of.
Alphabet ==
    {"t", "o", "n", "h", "^", ".", "'"} \cup Whitespace \cup {"/", RoleSwitcher, "?"}

Inputs == UNION {[1..n -> Alphabet] : n \in 0..MaxLen}

Range(s) == {s[k] : k \in 1..Len(s)}

----------------------------------------------------------------------------
(* PhoElement and its subclasses *)

\* The value of an attribute __init__ never set (reading it raises
\* AttributeError).
NoAttr == "<unset>"

\* What a function returns when it falls off its end.
None == [string |-> "None", symbol |-> "None", type |-> NoAttr, role |-> NoAttr,
         subclass |-> "NoneType"]

\* PhoElement.__init__ for a one-character string; subclass is set by the
\* subclass constructors.
PhoElementInit(string, subclass) ==
    IF IsSpace(string)
    THEN [string |-> " ", symbol |-> " ", type |-> "Suprasegmental",
          role |-> "boundary", subclass |-> subclass]
    ELSE IF string \in IpaIndex
         THEN [string |-> string, symbol |-> string, type |-> ipa_df[string].Type,
               role |-> ipa_df[string].Role, subclass |-> subclass]
         ELSE [string |-> string, symbol |-> string, type |-> NoAttr,
               role |-> NoAttr, subclass |-> subclass]

\* What reading an attribute __init__ never set gives (self.role after a
\* failed lookup, self.series of a whitespace element), or calling get on
\* the series None of a failed lookup: the call raises AttributeError.
AttributeErrorRaised ==
    [string |-> "AttributeError", symbol |-> "AttributeError", type |-> NoAttr,
     role |-> NoAttr, subclass |-> "AttributeError"]

\* PhoElement.__init__ left a series of the table in self.series: the string
\* is no whitespace (__init__ returns before series is set) and is in the
\* table (series = None otherwise).
HasSeries(string) == ~IsSpace(string) /\ string \in IpaIndex

PhoElement(string) == PhoElementInit(string, "None")

\* PhoConsonant.__init__: after PhoElement.__init__, the features are read
\* with self.series.get(...).
PhoConsonant(string) ==
    IF HasSeries(string)
    THEN PhoElementInit(string, "consonant")
    ELSE AttributeErrorRaised

\* PhoVowel.__init__: after PhoElement.__init__, the features are read with
\* self.series.get(...).
PhoVowel(string) ==
    IF HasSeries(string)
    THEN PhoElementInit(string, "vowel")
    ELSE AttributeErrorRaised

PhoDiacritic(string) == PhoElementInit(string, "diacritic")
PhoLigature(string) == PhoElementInit(string, "ligature")
PhoBoundary(string) == PhoElementInit(string, "boundary")
PhoStress(string) == PhoElementInit(string, "stress")

\* Mutant of classify: Click is no type of a consonant.
classify_NoClick(self) ==
    IF self.role = NoAttr
    THEN AttributeErrorRaised
    ELSE IF self.role = "base"
    THEN IF self.type \in {"Consonant", "Implosive"}
         THEN PhoConsonant(self.string)
         ELSE IF self.type = "Vowel"
              THEN PhoVowel(self.string)
              ELSE None
    ELSE IF self.role \in {"diacritic_right", "diacritic_left"}
         THEN PhoDiacritic(self.string)
    ELSE IF self.role = "compound_right"
         THEN PhoLigature(self.string)
    ELSE IF self.role = "boundary"
         THEN PhoBoundary(self.string)
    ELSE IF self.role = "stress"
         THEN PhoStress(self.string)
    ELSE PhoElement(self.string)

\* Mutant of classify: an element without a role takes the last branch.
classify_UnknownFallback(self) ==
    IF self.role = "base"
    THEN IF self.type \in {"Consonant", "Implosive", "Click"}
         THEN PhoConsonant(self.string)
         ELSE IF self.type = "Vowel"
              THEN PhoVowel(self.string)
              ELSE None
    ELSE IF self.role \in {"diacritic_right", "diacritic_left"}
         THEN PhoDiacritic(self.string)
    ELSE IF self.role = "compound_right"
         THEN PhoLigature(self.string)
    ELSE IF self.role = "boundary"
         THEN PhoBoundary(self.string)
    ELSE IF self.role = "stress"
         THEN PhoStress(self.string)
    ELSE PhoElement(self.string)

\* PhoElement.classify
classify(self) ==
    IF self.role = NoAttr
    THEN AttributeErrorRaised
    ELSE IF self.role = "base"
    THEN IF self.type \in {"Consonant", "Implosive", "Click"}
         THEN PhoConsonant(self.string)
         ELSE IF self.type = "Vowel"
              THEN PhoVowel(self.string)
              ELSE None
    ELSE IF self.role \in {"diacritic_right", "diacritic_left"}
         THEN PhoDiacritic(self.string)
    ELSE IF self.role = "compound_right"
         THEN PhoLigature(self.string)
    ELSE IF self.role = "boundary"
         THEN PhoBoundary(self.string)
    ELSE IF self.role = "stress"
         THEN PhoStress(self.string)
    ELSE PhoElement(self.string)

\* __init__ set no type or no role on the element: reading the attribute
\* raises AttributeError.
HasUnsetAttr(self) == self.type = NoAttr \/ self.role = NoAttr

\* return NotImplemented
NotImplemented == "NotImplemented"

\* PhoElement.__eq__: the four comparisons are all made before all() is
\* called, so every attribute of both elements is read.
__eq__(self, other) ==
    IF other = None
    THEN NotImplemented
    ELSE IF HasUnsetAttr(self) \/ HasUnsetAttr(other)
         THEN AttributeErrorRaised
         ELSE /\ self.string = other.string
              /\ self.symbol = other.symbol
              /\ self.type = other.type
              /\ self.role = other.role

\* PhoElement.__ne__: the four comparisons are all made before all() is
\* called, so every attribute of both elements is read.
__ne__(self, other) ==
    IF other = None
    THEN NotImplemented
    ELSE IF HasUnsetAttr(self) \/ HasUnsetAttr(other)
         THEN AttributeErrorRaised
         ELSE /\ self.string # other.string
              /\ self.symbol # other.symbol
              /\ self.type # other.type
              /\ self.role # other.role

----------------------------------------------------------------------------
(* PhoSegment *)

\* Some component has no role: reading component.role raises
\* AttributeError.
HasUnsetRole(components) ==
    \E k \in 1..Len(components) : components[k].role = NoAttr

RECURSIVE ByRole(_, _)
\* The components of the given role, in order, when every component has a
\* role.
ByRole(components, role) ==
    IF components = <<>>
    THEN <<>>
    ELSE IF Head(components).role = role
         THEN <<Head(components)>> \o ByRole(Tail(components), role)
         ELSE ByRole(Tail(components), role)

\* [component for component in components if component.role == role]
SelectRole(components, role) ==
    IF HasUnsetRole(components)
    THEN AttributeErrorRaised
    ELSE ByRole(components, role)

\* "".join([component.symbol for component in components]), as the sequence
\* of the symbols.
JoinSymbols(components) == [k \in 1..Len(components) |-> components[k].symbol]

\* Mutant of PhoSegment: a list with more than one base is refused too.
PhoSegment_ExactlyOne(components) ==
    IF HasUnsetRole(components)
    THEN [raised |-> "AttributeError", components |-> <<>>, string |-> <<>>,
          base |-> <<>>, right_diacritics |-> <<>>, left_diacritics |-> <<>>]
    ELSE
    IF Len(SelectRole(components, "base")) # 1
    THEN [raised |-> "ValueError", components |-> <<>>, string |-> <<>>,
          base |-> <<>>, right_diacritics |-> <<>>, left_diacritics |-> <<>>]
    ELSE [raised |-> "",
          components |-> components,
          string |-> JoinSymbols(components),
          base |-> SelectRole(components, "base"),
          right_diacritics |-> SelectRole(components, "diacritic_right"),
          left_diacritics |-> SelectRole(components, "diacritic_left")]

\* Mutant of PhoSegment: no check of the components.
PhoSegment_NoCheck(components) ==
    IF HasUnsetRole(components)
    THEN [raised |-> "AttributeError", components |-> <<>>, string |-> <<>>,
          base |-> <<>>, right_diacritics |-> <<>>, left_diacritics |-> <<>>]
    ELSE
    [raised |-> "",
     components |-> components,
     string |-> JoinSymbols(components),
     base |-> SelectRole(components, "base"),
     right_diacritics |-> SelectRole(components, "diacritic_right"),
     left_diacritics |-> SelectRole(components, "diacritic_left")]

\* Mutant of PhoSegment: the two diacritic lists exchanged.
PhoSegment_SwapDiacritics(components) ==
    IF HasUnsetRole(components)
    THEN [raised |-> "AttributeError", components |-> <<>>, string |-> <<>>,
          base |-> <<>>, right_diacritics |-> <<>>, left_diacritics |-> <<>>]
    ELSE
    IF ~(\E k \in 1..Len(components) : components[k].role = "base")
    THEN [raised |-> "ValueError", components |-> <<>>, string |-> <<>>,
          base |-> <<>>, right_diacritics |-> <<>>, left_diacritics |-> <<>>]
    ELSE [raised |-> "",
          components |-> components,
          string |-> JoinSymbols(components),
          base |-> SelectRole(components, "base"),
          right_diacritics |-> SelectRole(components, "diacritic_left"),
          left_diacritics |-> SelectRole(components, "diacritic_right")]

\* PhoSegment.__init__: a component without a role raises AttributeError, in
\* the any() of has_base or, after a base, in the list comprehensions.
PhoSegment(components) ==
    IF HasUnsetRole(components)
    THEN [raised |-> "AttributeError", components |-> <<>>, string |-> <<>>,
          base |-> <<>>, right_diacritics |-> <<>>, left_diacritics |-> <<>>]
    ELSE
    IF ~(\E k \in 1..Len(components) : components[k].role = "base")
    THEN [raised |-> "ValueError", components |-> <<>>, string |-> <<>>,
          base |-> <<>>, right_diacritics |-> <<>>, left_diacritics |-> <<>>]
    ELSE [raised |-> "",
          components |-> components,
          string |-> JoinSymbols(components),
          base |-> SelectRole(components, "base"),
          right_diacritics |-> SelectRole(components, "diacritic_right"),
          left_diacritics |-> SelectRole(components, "diacritic_left")]

----------------------------------------------------------------------------
(* ipa_parser: preprocessing *)

\* re.sub(r"[\[\]\\\/]", " ", input_str)
ReSub(s) == [k \in 1..Len(s) |-> IF s[k] \in Delimiters THEN " " ELSE s[k]]

RECURSIVE LStrip(_)
LStrip(s) ==
    IF s = <<>> THEN s
    ELSE IF IsSpace(Head(s)) THEN LStrip(Tail(s)) ELSE s

RECURSIVE RStrip(_)
RStrip(s) ==
    IF s = <<>> THEN s
    ELSE IF IsSpace(s[Len(s)]) THEN RStrip(SubSeq(s, 1, Len(s) - 1)) ELSE s

\* str.strip()
Strip(s) == RStrip(LStrip(s))

\* "<role switcher>" in input_str
ContainsRoleSwitcher(s) == \E k \in 1..Len(s) : s[k] = RoleSwitcher

----------------------------------------------------------------------------
(* ipa_parser: the body of the for loop, on the record of the locals *)

\* An iteration that ends in continue.
Continue(st) == [st |-> st, raised |-> "", char |-> ""]

\* An iteration that raises.
Raise(st, exc, char) == [st |-> st, raised |-> exc, char |-> char]

\* The locals as ipa_parser initializes them.
InitLocals ==
    [transcript_memory |-> <<>>, seg_memory |-> <<>>, last_char_memory |-> "",
     has_base |-> FALSE, word_count |-> 1]

\* Mutant of segment_enders: a left diacritic does not end the segment.
segment_enders_NoLeft == {"base", "boundary", "stress"}

\* Mutant of segment_enders: a base does not end the segment.
segment_enders_NoBase == {"diacritic_left", "boundary", "stress"}

segment_enders == {"base", "diacritic_left", "boundary", "stress"}

\* Mutant of WhitespaceBranch: the test of last_char_memory is missing.
WhitespaceBranch_NoCoalesce(st, char) ==
    Continue([transcript_memory |->
                  Append(Append(st.transcript_memory, st.seg_memory),
                         <<PhoBoundary(" ")>>),
              seg_memory |-> <<>>,
              last_char_memory |-> char,
              has_base |-> FALSE,
              word_count |-> st.word_count + 1])

\* if char.isspace(): ...
WhitespaceBranch(st, char) ==
    IF IsSpace(st.last_char_memory)
    THEN Continue(st)
    ELSE Continue([transcript_memory |->
                       Append(Append(st.transcript_memory, st.seg_memory),
                              <<PhoBoundary(" ")>>),
                   seg_memory |-> <<>>,
                   last_char_memory |-> char,
                   has_base |-> FALSE,
                   word_count |-> st.word_count + 1])

\* Mutant of BoundaryStressBranch: without a base the buffer is appended to
\* the transcript before the element.
BoundaryStressBranch_EmitBuffer(st, ph, char) ==
    IF ~st.has_base
    THEN Continue([st EXCEPT !.transcript_memory =
                                 Append(Append(@, st.seg_memory), <<ph>>),
                             !.last_char_memory = char])
    ELSE Continue([st EXCEPT !.transcript_memory =
                                 Append(Append(@, st.seg_memory), <<ph>>),
                             !.has_base = FALSE,
                             !.seg_memory = <<>>,
                             !.last_char_memory = char])

\* Mutant of BoundaryStressBranch: without a base the pending buffer is
\* cleared.
BoundaryStressBranch_DropPending(st, ph, char) ==
    IF ~st.has_base
    THEN Continue([st EXCEPT !.transcript_memory = Append(@, <<ph>>),
                             !.seg_memory = <<>>,
                             !.last_char_memory = char])
    ELSE Continue([st EXCEPT !.transcript_memory =
                                 Append(Append(@, st.seg_memory), <<ph>>),
                             !.has_base = FALSE,
                             !.seg_memory = <<>>,
                             !.last_char_memory = char])

\* Mutant of BoundaryStressBranch: after a base the element is stored before
\* the segment.
BoundaryStressBranch_MarkerFirst(st, ph, char) ==
    IF ~st.has_base
    THEN Continue([st EXCEPT !.transcript_memory = Append(@, <<ph>>),
                             !.last_char_memory = char])
    ELSE Continue([st EXCEPT !.transcript_memory =
                                 Append(Append(@, <<ph>>), st.seg_memory),
                             !.has_base = FALSE,
                             !.seg_memory = <<>>,
                             !.last_char_memory = char])

\* Mutant of BoundaryStressBranch: without a base the element joins the
\* segment buffer.
BoundaryStressBranch_Buffer(st, ph, char) ==
    IF ~st.has_base
    THEN Continue([st EXCEPT !.seg_memory = Append(@, ph),
                             !.last_char_memory = char])
    ELSE Continue([st EXCEPT !.transcript_memory =
                                 Append(Append(@, st.seg_memory), <<ph>>),
                             !.has_base = FALSE,
                             !.seg_memory = <<>>,
                             !.last_char_memory = char])

\* if ph.role in ["boundary", "stress"]: ...
BoundaryStressBranch(st, ph, char) ==
    IF ~st.has_base
    THEN Continue([st EXCEPT !.transcript_memory = Append(@, <<ph>>),
                             !.last_char_memory = char])
    ELSE Continue([st EXCEPT !.transcript_memory =
                                 Append(Append(@, st.seg_memory), <<ph>>),
                             !.has_base = FALSE,
                             !.seg_memory = <<>>,
                             !.last_char_memory = char])

\* Mutant of NoBaseBranch: a right diacritic before any base is rejected.
NoBaseBranch_Strict(st, ph, char) ==
    IF ph.role = "diacritic_right"
    THEN Raise(st, "ValueError", char)
    ELSE Continue([st EXCEPT !.seg_memory = Append(@, ph),
                             !.has_base = IF ph.role = "base" THEN TRUE ELSE @,
                             !.last_char_memory = char])

\* if not has_base: ...
NoBaseBranch(st, ph, char) ==
    Continue([st EXCEPT !.seg_memory = Append(@, ph),
                        !.has_base = IF ph.role = "base" THEN TRUE ELSE @,
                        !.last_char_memory = char])

\* Mutant of SegmentEnderBranch: has_base is left as it is.
SegmentEnderBranch_KeepFlag(st, ph, char) ==
    Continue([st EXCEPT !.transcript_memory = Append(@, st.seg_memory),
                        !.seg_memory = <<ph>>,
                        !.last_char_memory = char])

\* Mutant of SegmentEnderBranch: the element joins the segment it should end.
SegmentEnderBranch_Append(st, ph, char) ==
    Continue([st EXCEPT !.seg_memory = Append(@, ph),
                        !.last_char_memory = char])

\* if ph.role in segment_enders: ...
SegmentEnderBranch(st, ph, char) ==
    Continue([st EXCEPT !.transcript_memory = Append(@, st.seg_memory),
                        !.seg_memory = <<ph>>,
                        !.has_base = (ph.role = "base"),
                        !.last_char_memory = char])

\* Mutant of AppendBranch: the segment is stored before the element is
\* appended.
AppendBranch_Flush(st, ph, char) ==
    Continue([st EXCEPT !.transcript_memory = Append(@, st.seg_memory),
                        !.seg_memory = <<ph>>,
                        !.last_char_memory = char])

\* seg_memory.append(ph)
AppendBranch(st, ph, char) ==
    Continue([st EXCEPT !.seg_memory = Append(@, ph),
                        !.last_char_memory = char])

\* Mutant of UnknownBranch: the character is skipped.
UnknownBranch_Skip(st, char) == Continue(st)

\* raise ValueError(f"Error: {char} not in reference ipa_df")
UnknownBranch(st, char) == Raise(st, "ValueError", char)

\* One iteration of the for loop.
LoopBody(st, char) ==
    IF IsSpace(char)
    THEN WhitespaceBranch(st, char)
    ELSE IF char \in IpaIndex
         THEN LET ph == classify(PhoElement(char)) IN
              IF ph = None
              THEN Raise(st, "AttributeError", char)
              ELSE IF ph.role \in {"boundary", "stress"}
                   THEN BoundaryStressBranch(st, ph, char)
              ELSE IF ~st.has_base
                   THEN NoBaseBranch(st, ph, char)
              ELSE IF ph.role \in segment_enders
                   THEN SegmentEnderBranch(st, ph, char)
              ELSE AppendBranch(st, ph, char)
         ELSE UnknownBranch(st, char)

\* Mutant of FinalFlush: a final buffer without a base is not stored.
FinalFlush_DropBaseless(st) ==
    IF st.has_base
    THEN Append(st.transcript_memory, st.seg_memory)
    ELSE st.transcript_memory

\* transcript_memory.append(seg_memory); return transcript_memory
FinalFlush(st) == Append(st.transcript_memory, st.seg_memory)

\* What a call returned (kind "transcript", "role_switcher", "not_str") or
\* raised (kind "ValueError", "AttributeError", with the character named).
Returned(kind, value) == [kind |-> kind, value |-> value, char |-> ""]
Raised(exc, char) == [kind |-> exc, value |-> <<>>, char |-> char]
NoResult == [kind |-> "none", value |-> <<>>, char |-> ""]

\* return [""]
RoleSwitcherReturn == Returned("role_switcher", <<"">>)

RECURSIVE ScanFrom(_, _)
\* The for loop from the locals st over the characters cs, and the return.
ScanFrom(st, cs) ==
    IF cs = <<>>
    THEN Returned("transcript", FinalFlush(st))
    ELSE LET o == LoopBody(st, Head(cs)) IN
         IF o.raised # ""
         THEN Raised(o.raised, o.char)
         ELSE ScanFrom(o.st, Tail(cs))

\* ipa_parser(input_str) for a str argument, as one function.
ipa_parser(s) ==
    IF ContainsRoleSwitcher(ReSub(s))
    THEN RoleSwitcherReturn
    ELSE ScanFrom(InitLocals, Strip(ReSub(s)))

----------------------------------------------------------------------------
(* ipa_parser as a state machine: one step per statement group *)

Locals ==
    [transcript_memory |-> transcript_memory, seg_memory |-> seg_memory,
     last_char_memory |-> last_char_memory, has_base |-> has_base,
     word_count |-> word_count]

Assign(st) ==
    /\ transcript_memory' = st.transcript_memory
    /\ seg_memory' = st.seg_memory
    /\ last_char_memory' = st.last_char_memory
    /\ has_base' = st.has_base
    /\ word_count' = st.word_count

\* No call of classify, PhoSegment, segment_generator or get_bases is made.
ApiIdle ==
    /\ input_isinstance_str = input_is_str
    /\ api_pc = "start"
    /\ arg_string = ""
    /\ arg_components = <<>>
    /\ element = None
    /\ ipa_parser_list = <<>>
    /\ seg_index = 0
    /\ collected = <<>>
    /\ api_result = NoResult

Init ==
    /\ input_is_str \in BOOLEAN
    /\ input_str \in (IF input_is_str THEN Inputs ELSE {<<>>})
    /\ pc = "start"
    /\ chars = <<>>
    /\ i = 0
    /\ transcript_memory = InitLocals.transcript_memory
    /\ seg_memory = InitLocals.seg_memory
    /\ last_char_memory = InitLocals.last_char_memory
    /\ has_base = InitLocals.has_base
    /\ word_count = InitLocals.word_count
    /\ result = NoResult
    /\ op = "ipa_parser"
    /\ ApiIdle
    /\ calls = <<>>

\* if type(input_str) != str: return ""
ReturnNotStr ==
    /\ pc = "start"
    /\ ~input_is_str
    /\ pc' = "done"
    /\ result' = Returned("not_str", <<>>)
    /\ UNCHANGED <<input_is_str, input_str, chars, i, transcript_memory,
                   seg_memory, last_char_memory, has_base, word_count>>
    /\ UNCHANGED <<apiVars, parVars>>

\* The role switcher test after re.sub: return [""]
ReturnRoleSwitcher ==
    /\ pc = "start"
    /\ input_is_str
    /\ ContainsRoleSwitcher(ReSub(input_str))
    /\ pc' = "done"
    /\ result' = RoleSwitcherReturn
    /\ UNCHANGED <<input_is_str, input_str, chars, i, transcript_memory,
                   seg_memory, last_char_memory, has_base, word_count>>
    /\ UNCHANGED <<apiVars, parVars>>

\* re.sub, the initialization of the locals, and input_str.strip()
Preprocess ==
    /\ pc = "start"
    /\ input_is_str
    /\ ~ContainsRoleSwitcher(ReSub(input_str))
    /\ chars' = Strip(ReSub(input_str))
    /\ i' = 0
    /\ Assign(InitLocals)
    /\ pc' = "scan"
    /\ UNCHANGED <<input_is_str, input_str, result>>
    /\ UNCHANGED <<apiVars, parVars>>

\* The character the next iteration reads.
NextChar == chars[i + 1]

Scanning == pc = "scan" /\ i < Len(chars)

\* The roles of the characters of the table.
RoleOf(char) == classify(PhoElement(char)).role

\* The iteration of the loop on the next character: its outcome is the one
\* of LoopBody.
Iterate ==
    LET o == LoopBody(Locals, NextChar) IN
    /\ Assign(o.st)
    /\ IF o.raised = ""
       THEN /\ i' = i + 1
            /\ UNCHANGED <<pc, result>>
       ELSE /\ pc' = "done"
            /\ result' = Raised(o.raised, o.char)
            /\ UNCHANGED i
    /\ UNCHANGED <<input_is_str, input_str, chars>>
    /\ UNCHANGED <<apiVars, parVars>>

\* A whitespace character after a whitespace character: skipped.
ScanWhitespaceSkip ==
    /\ Scanning
    /\ IsSpace(NextChar)
    /\ IsSpace(last_char_memory)
    /\ Iterate

\* A whitespace character: the word boundary.
ScanWhitespace ==
    /\ Scanning
    /\ IsSpace(NextChar)
    /\ ~IsSpace(last_char_memory)
    /\ Iterate

\* A boundary or stress character before any base.
ScanMarkerNoBase ==
    /\ Scanning
    /\ NextChar \in IpaIndex
    /\ RoleOf(NextChar) \in {"boundary", "stress"}
    /\ ~has_base
    /\ Iterate

\* A boundary or stress character after a base.
ScanMarkerAfterBase ==
    /\ Scanning
    /\ NextChar \in IpaIndex
    /\ RoleOf(NextChar) \in {"boundary", "stress"}
    /\ has_base
    /\ Iterate

\* Any other character of the table while the segment has no base.
ScanNoBase ==
    /\ Scanning
    /\ NextChar \in IpaIndex
    /\ RoleOf(NextChar) \notin {"boundary", "stress"}
    /\ ~has_base
    /\ Iterate

\* A segment ender after the base.
ScanSegmentEnder ==
    /\ Scanning
    /\ NextChar \in IpaIndex
    /\ RoleOf(NextChar) \in segment_enders \ {"boundary", "stress"}
    /\ has_base
    /\ Iterate

\* A right diacritic or ligature after the base.
ScanAppend ==
    /\ Scanning
    /\ NextChar \in IpaIndex
    /\ RoleOf(NextChar) \notin segment_enders \cup {"boundary", "stress"}
    /\ has_base
    /\ Iterate

\* A character that is neither whitespace nor in the table.
ScanUnknown ==
    /\ Scanning
    /\ ~IsSpace(NextChar)
    /\ NextChar \notin IpaIndex
    /\ Iterate

\* The end of the loop: the final segment is stored and the transcript
\* returned.
Return ==
    /\ pc = "scan"
    /\ i = Len(chars)
    /\ transcript_memory' = FinalFlush(Locals)
    /\ result' = Returned("transcript", FinalFlush(Locals))
    /\ pc' = "done"
    /\ UNCHANGED <<input_is_str, input_str, chars, i, seg_memory,
                   last_char_memory, has_base, word_count>>
    /\ UNCHANGED <<apiVars, parVars>>

Next ==
    \/ ReturnNotStr
    \/ ReturnRoleSwitcher
    \/ Preprocess
    \/ ScanWhitespaceSkip
    \/ ScanWhitespace
    \/ ScanMarkerNoBase
    \/ ScanMarkerAfterBase
    \/ ScanNoBase
    \/ ScanSegmentEnder
    \/ ScanAppend
    \/ ScanUnknown
    \/ Return

Spec == Init /\ [][Next]_vars

----------------------------------------------------------------------------
(* Consistency of the two presentations of ipa_parser *)

\* The state machine returns what the function returns.
StepwiseIsFunction ==
    pc = "done" /\ input_is_str => result = ipa_parser(input_str)

----------------------------------------------------------------------------
(* Vocabulary of the properties *)

RECURSIVE Concat(_)
\* The concatenation of a sequence of sequences.
Concat(ss) == IF ss = <<>> THEN <<>> ELSE Head(ss) \o Concat(Tail(ss))

\* The resolved symbols of all elements of all entries, in transcript order.
ResolvedSymbols(transcript) ==
    Concat([k \in 1..Len(transcript) |-> JoinSymbols(transcript[k])])

RECURSIVE CollapseWs(_)
\* The string with every run of whitespace replaced by a single space.
CollapseWs(s) ==
    IF s = <<>> THEN <<>>
    ELSE IF IsSpace(Head(s))
         THEN <<" ">> \o CollapseWs(LStrip(Tail(s)))
         ELSE <<Head(s)>> \o CollapseWs(Tail(s))

\* The number of maximal runs of whitespace of a string.
NumWsRuns(s) ==
    Cardinality({k \in 1..Len(s) : IsSpace(s[k]) /\ (k = 1 \/ ~IsSpace(s[k - 1]))})

\* The entry a whitespace run leaves in the transcript.
WordBoundaryEntry == <<PhoBoundary(" ")>>

NumWordBoundaryEntries(transcript) ==
    Cardinality({k \in 1..Len(transcript) : transcript[k] = WordBoundaryEntry})

\* The call ended by raising.
HasRaised == result.kind \in {"ValueError", "AttributeError"}

\* The call ended by returning a transcript.
ReturnedTranscript == pc = "done" /\ result.kind = "transcript"

\* The preprocessed and trimmed form of the input.
Trimmed == Strip(ReSub(input_str))

\* The positions of a string that hold a non-whitespace character absent
\* from the table.
UnknownPositions(s) ==
    {k \in 1..Len(s) : ~IsSpace(s[k]) /\ s[k] \notin IpaIndex}

Min(S) == CHOOSE x \in S : \A y \in S : x <= y

HasBase(entry) == \E k \in 1..Len(entry) : entry[k].role = "base"

----------------------------------------------------------------------------
(* C1 *)

\* C1: for every input the parser accepts, the concatenation of the resolved
\* symbols of all elements of all transcript entries, in order, is the input
\* after delimiter replacement and trimming.
C1_RoundTrip ==
    ReturnedTranscript => ResolvedSymbols(result.value) = Trimmed

----------------------------------------------------------------------------
(* C2 *)

\* C2: when the segment has its base and the next character has role base or
\* diacritic_left, the buffer is appended to the transcript as one entry and
\* the new buffer holds only that element, has_base being true iff it is a
\* base; a base, a left diacritic and a base give the entries [b], [d, b].
C2_SegmentEnderPolicy ==
    /\ [][(/\ Scanning
           /\ has_base
           /\ NextChar \in IpaIndex
           /\ ipa_df[NextChar].Role \in {"base", "diacritic_left"})
          => (/\ transcript_memory' = Append(transcript_memory, seg_memory)
              /\ seg_memory' = <<classify(PhoElement(NextChar))>>
              /\ has_base' = (ipa_df[NextChar].Role = "base")
              /\ pc' = "scan")]_vars
    /\ [](/\ pc = "done"
          /\ input_is_str
          /\ Len(input_str) = 3
          /\ \A k \in 1..3 : input_str[k] \in IpaIndex
          /\ ipa_df[input_str[1]].Role = "base"
          /\ ipa_df[input_str[2]].Role = "diacritic_left"
          /\ ipa_df[input_str[3]].Role = "base"
          => result = Returned("transcript",
                 << <<classify(PhoElement(input_str[1]))>>,
                    <<classify(PhoElement(input_str[2])),
                      classify(PhoElement(input_str[3]))>> >>))

C2_Witness ==
    /\ ReturnedTranscript
    /\ input_str = <<"t", "n", "o">>
    /\ result.value = << <<PhoConsonant("t")>>, <<PhoDiacritic("n"), PhoVowel("o")>> >>

----------------------------------------------------------------------------
(* C3 *)

\* C3: the call on an input ends as the call on the same input with every
\* whitespace run replaced by a single space, and the transcript holds
\* exactly one word-boundary entry per run of whitespace of the trimmed
\* input.
C3_WhitespaceCoalescing ==
    pc = "done" /\ input_is_str =>
        /\ result = ipa_parser(CollapseWs(input_str))
        /\ result.kind = "transcript" =>
               NumWordBoundaryEntries(result.value) = NumWsRuns(chars)

C3_Witness ==
    /\ ReturnedTranscript
    /\ \E k \in 1..(Len(chars) - 1) : IsSpace(chars[k]) /\ IsSpace(chars[k + 1])
    /\ NumWordBoundaryEntries(result.value) = 1

----------------------------------------------------------------------------
(* C4 *)

\* C4: an input that contains the role switcher, whatever else it contains,
\* makes the call fail with an error; no value is returned.
C4_RoleSwitcherRaises ==
    pc = "done" /\ input_is_str /\ RoleSwitcher \in Range(input_str) => HasRaised

----------------------------------------------------------------------------
(* C5 *)

\* C5: an input without the role switcher whose trimmed form holds a
\* non-whitespace character absent from the table makes the call raise
\* ValueError naming the first such character, whatever precedes it, and no
\* transcript is returned.
C5_UnknownCharacter ==
    (/\ pc = "done"
     /\ input_is_str
     /\ ~ContainsRoleSwitcher(input_str)
     /\ UnknownPositions(Trimmed) # {})
    => result = Raised("ValueError", Trimmed[Min(UnknownPositions(Trimmed))])

C5_Witness ==
    /\ pc = "done"
    /\ result.kind = "ValueError"
    /\ i >= 2
    /\ transcript_memory # <<>>
    /\ UnknownPositions(chars) # {}
    /\ result.char = chars[i + 1]

----------------------------------------------------------------------------
(* C6, C7 *)

IsMarker(char) ==
    char \in IpaIndex /\ ipa_df[char].Role \in {"boundary", "stress"}

\* The next iteration scans a boundary or stress character while has_base is
\* false.
MarkerBeforeBase == Scanning /\ IsMarker(NextChar) /\ ~has_base

Last(s) == s[Len(s)]

\* C6 as claimed: a boundary or stress character scanned while has_base is
\* false appends the current segment buffer to the transcript as an entry and
\* then the element as its own singleton entry.
C6_MarkerBeforeBaseEmitsBuffer ==
    [][MarkerBeforeBase =>
           transcript_memory' =
               Append(Append(transcript_memory, seg_memory),
                      <<classify(PhoElement(NextChar))>>)]_vars

\* C6, amended: a boundary or stress character scanned while has_base is
\* false appends one entry only, the singleton of the element; the segment
\* buffer is not appended to the transcript by that step.
C6_MarkerBeforeBaseSingleton ==
    [][MarkerBeforeBase =>
           transcript_memory' =
               Append(transcript_memory, <<classify(PhoElement(NextChar))>>)]_vars

C6_Witness ==
    /\ pc = "scan"
    /\ i = 2
    /\ IsMarker(chars[2])
    /\ ~has_base
    /\ seg_memory = <<classify(PhoElement(chars[1]))>>
    /\ transcript_memory = << <<classify(PhoElement(chars[2]))>> >>

\* C7: a boundary or stress character scanned while has_base is false adds
\* exactly one entry, its singleton, and leaves the pending buffer and
\* has_base as they are; a marker at the start of the input or directly after
\* another marker is appended right after that marker's singleton, and an
\* input of markers only gives one singleton per marker and the final entry.
C7_MarkerBeforeBaseFrame ==
    /\ [][MarkerBeforeBase =>
              /\ Len(transcript_memory') = Len(transcript_memory) + 1
              /\ Last(transcript_memory') = <<classify(PhoElement(NextChar))>>
              /\ seg_memory' = seg_memory
              /\ has_base' = has_base]_vars
    /\ [][(Scanning /\ IsMarker(NextChar) /\ i > 0 /\ IsMarker(chars[i])) =>
              /\ ~has_base
              /\ Last(transcript_memory) = <<classify(PhoElement(chars[i]))>>
              /\ transcript_memory' =
                     Append(transcript_memory, <<classify(PhoElement(NextChar))>>)]_vars
    /\ []((/\ pc = "done"
           /\ input_is_str
           /\ ~ContainsRoleSwitcher(input_str)
           /\ \A k \in 1..Len(Trimmed) : IsMarker(Trimmed[k]))
          => result = Returned("transcript",
                 [k \in 1..(Len(Trimmed) + 1) |->
                     IF k <= Len(Trimmed)
                     THEN <<classify(PhoElement(Trimmed[k]))>>
                     ELSE <<>>]))

C7_Witness ==
    /\ ReturnedTranscript
    /\ Len(chars) >= 3
    /\ IsMarker(chars[1])
    /\ IsMarker(chars[2])
    /\ ~IsMarker(chars[3])
    /\ Len(result.value) >= 3
    /\ result.value[1] = <<classify(PhoElement(chars[1]))>>
    /\ result.value[2] = <<classify(PhoElement(chars[2]))>>

----------------------------------------------------------------------------
(* C8 *)

IsBaseChar(char) == char \in IpaIndex /\ ipa_df[char].Role = "base"

IsRightDiacriticChar(char) ==
    char \in IpaIndex /\ ipa_df[char].Role = "diacritic_right"

\* Words separated by whitespace, each word a sequence of segments, each
\* segment a base followed by right diacritics.
WordForm(s) ==
    /\ s # <<>>
    /\ \A k \in 1..Len(s) :
           \/ IsBaseChar(s[k])
           \/ IsRightDiacriticChar(s[k]) /\ k > 1 /\ ~IsSpace(s[k - 1])
           \/ IsSpace(s[k]) /\ k > 1 /\ k < Len(s)

NumBaseChars(s) == Cardinality({k \in 1..Len(s) : IsBaseChar(s[k])})

\* C8: on an input of whitespace-separated words of segments, each a base
\* followed by right diacritics, the transcript has one entry per segment
\* (the base and its diacritics) and one word-boundary entry per word gap,
\* and no other entry.
C8_EndToEndCount ==
    (/\ pc = "done"
     /\ input_is_str
     /\ WordForm(Trimmed))
    => /\ result.kind = "transcript"
       /\ Len(result.value) = NumBaseChars(Trimmed) + NumWsRuns(Trimmed)
       /\ NumWordBoundaryEntries(result.value) = NumWsRuns(Trimmed)
       /\ \A k \in 1..Len(result.value) :
              \/ result.value[k] = WordBoundaryEntry
              \/ /\ result.value[k] # <<>>
                 /\ result.value[k][1].role = "base"
                 /\ \A j \in 2..Len(result.value[k]) :
                        result.value[k][j].role = "diacritic_right"

C8_Witness ==
    /\ ReturnedTranscript
    /\ WordForm(Trimmed)
    /\ NumWsRuns(Trimmed) = 1
    /\ NumBaseChars(Trimmed) = 2
    /\ \E k \in 1..Len(Trimmed) : IsRightDiacriticChar(Trimmed[k])
    /\ Len(result.value) = 3

----------------------------------------------------------------------------
(* C9 *)

\* C9: after a scan that completes the remaining buffer is the last entry of
\* the transcript, even when empty; an input whose trimmed form is empty
\* gives exactly one empty entry, and an input whose trimmed form ends with a
\* boundary or stress character gives a transcript that ends with an empty
\* entry.
C9_FinalFlush ==
    (ReturnedTranscript /\ input_is_str) =>
        /\ result.value # <<>>
        /\ Last(result.value) = seg_memory
        /\ Trimmed = <<>> => result.value = << <<>> >>
        /\ (Trimmed # <<>> /\ IsMarker(Last(Trimmed))) => Last(result.value) = <<>>

----------------------------------------------------------------------------
(* C10 *)

\* C10: an input whose characters are all whitespace, delimiters or in the
\* table, without the role switcher, makes the call return a transcript, also
\* when an entry has no base; building a PhoSegment from an entry is what
\* raises, exactly for the entries without a base.
C10_NoValidationFailure ==
    (/\ pc = "done"
     /\ input_is_str
     /\ \A k \in 1..Len(input_str) :
            input_str[k] \in Whitespace \cup Delimiters \cup IpaIndex)
    => /\ result.kind = "transcript"
       /\ result.value # <<>>
       /\ \A k \in 1..Len(result.value) :
              (PhoSegment(result.value[k]).raised = "ValueError")
                  <=> ~HasBase(result.value[k])

C10_Witness ==
    /\ ReturnedTranscript
    /\ \E k \in 1..Len(result.value) :
           /\ result.value[k] # <<>>
           /\ \A j \in 1..Len(result.value[k]) :
                  result.value[k][j].role \in {"diacritic_left", "diacritic_right"}
           /\ PhoSegment(result.value[k]).raised = "ValueError"
    /\ \E k \in 1..Len(result.value) : HasBase(result.value[k])

----------------------------------------------------------------------------
(* C11 *)

\* C11: an input in which a right diacritic comes before any base, as a right
\* diacritic directly followed by a base, makes ipa_parser raise ValueError.
C11_InvalidSequenceRaises ==
    (/\ pc = "done"
     /\ input_is_str
     /\ ~ContainsRoleSwitcher(input_str)
     /\ UnknownPositions(Trimmed) = {}
     /\ Len(Trimmed) >= 2
     /\ IsRightDiacriticChar(Trimmed[1])
     /\ IsBaseChar(Trimmed[2]))
    => result.kind = "ValueError"

----------------------------------------------------------------------------
(* C19 *)

\* C19: a base, a ligature (role compound_right) and a second base give the
\* single entry [base, ligature, base].
C19_CompoundPhoneOneEntry ==
    (/\ pc = "done"
     /\ input_is_str
     /\ Len(input_str) = 3
     /\ IsBaseChar(input_str[1])
     /\ input_str[2] \in IpaIndex
     /\ ipa_df[input_str[2]].Role = "compound_right"
     /\ IsBaseChar(input_str[3]))
    => result = Returned("transcript",
           << <<classify(PhoElement(input_str[1])),
                classify(PhoElement(input_str[2])),
                classify(PhoElement(input_str[3]))>> >>)

----------------------------------------------------------------------------
(* The callers of ipa_parser: segment_generator and get_bases *)

\* ipa_parser(input_str) for any argument: a value that is no str gives "".
CallParser(is_str, s) ==
    IF ~is_str THEN Returned("not_str", <<>>) ELSE ipa_parser(s)

\* What "for seg in ipa_parser_list" walks: the entries of the transcript;
\* the one entry "" of [""], which like [] has no component and is falsy;
\* nothing for "".
IterList(r) ==
    IF r.kind = "transcript" THEN r.value
    ELSE IF r.kind = "role_switcher" THEN << <<>> >>
    ELSE <<>>

\* Mutant of GenEntry: the first entry that is no segment ends the stream.
GenEntry_StopOnInvalid(yielded, seg) ==
    IF PhoSegment(seg).raised = "ValueError"
    THEN [yielded |-> yielded, stop |-> TRUE, raised |-> ""]
    ELSE IF PhoSegment(seg).raised # ""
         THEN [yielded |-> yielded, stop |-> TRUE, raised |-> PhoSegment(seg).raised]
         ELSE [yielded |-> Append(yielded, PhoSegment(seg)), stop |-> FALSE,
               raised |-> ""]

\* segment_generator, the body of the for loop: try: yield PhoSegment(seg)
\* except ValueError: pass; any other error of PhoSegment ends the generator
\* and reaches the caller.
GenEntry(yielded, seg) ==
    IF PhoSegment(seg).raised = "ValueError"
    THEN [yielded |-> yielded, stop |-> FALSE, raised |-> ""]
    ELSE IF PhoSegment(seg).raised # ""
         THEN [yielded |-> yielded, stop |-> TRUE, raised |-> PhoSegment(seg).raised]
         ELSE [yielded |-> Append(yielded, PhoSegment(seg)), stop |-> FALSE,
               raised |-> ""]

\* segment_generator: ipa_parser_list = ipa_parser(input_str), outside any
\* try.
GenParse(is_str, s) == CallParser(is_str, s)

\* Mutant of BasesEntry: an empty entry is skipped like any other entry
\* without a base.
BasesEntry_SkipEmpty(bases_list, seg) ==
    IF PhoSegment(seg).raised = "ValueError"
    THEN [bases_list |-> bases_list, returns |-> FALSE, raised |-> ""]
    ELSE IF PhoSegment(seg).raised # ""
         THEN [bases_list |-> bases_list, returns |-> FALSE,
               raised |-> PhoSegment(seg).raised]
         ELSE [bases_list |-> Append(bases_list, PhoSegment(seg).base[1]),
               returns |-> FALSE, raised |-> ""]

\* get_bases, the body of the for loop: an empty entry returns [""] at once;
\* an error of PhoSegment other than ValueError reaches the caller.
BasesEntry(bases_list, seg) ==
    IF seg = <<>>
    THEN [bases_list |-> bases_list, returns |-> TRUE, raised |-> ""]
    ELSE IF PhoSegment(seg).raised = "ValueError"
         THEN [bases_list |-> bases_list, returns |-> FALSE, raised |-> ""]
    ELSE IF PhoSegment(seg).raised # ""
         THEN [bases_list |-> bases_list, returns |-> FALSE,
               raised |-> PhoSegment(seg).raised]
         ELSE [bases_list |-> Append(bases_list, PhoSegment(seg).base[1]),
               returns |-> FALSE, raised |-> ""]

\* return [""]
BasesSentinel == Returned("sentinel", <<"">>)

----------------------------------------------------------------------------
(* Calls of classify, PhoSegment, segment_generator and get_bases *)

\* The classified elements of the characters of the table, and the word
\* boundary: the elements classify returns.
Elements == {classify(PhoElement(c)) : c \in IpaIndex \cup {" "}} \ {None}

ComponentLists == UNION {[1..n -> Elements] : n \in 0..MaxComponents}

\* The strings PhoElement is called on.
ClassifyInputs == IpaIndex \cup Whitespace \cup {"?"}

ParserIdle ==
    /\ pc = "start"
    /\ chars = <<>>
    /\ i = 0
    /\ transcript_memory = InitLocals.transcript_memory
    /\ seg_memory = InitLocals.seg_memory
    /\ last_char_memory = InitLocals.last_char_memory
    /\ has_base = InitLocals.has_base
    /\ word_count = InitLocals.word_count
    /\ result = NoResult

InitApi ==
    /\ op \in {"classify", "PhoSegment", "segment_generator", "get_bases", "compare"}
    /\ ParserIdle
    /\ calls = <<>>
    /\ api_pc = "start"
    /\ element = None
    /\ ipa_parser_list = <<>>
    /\ seg_index = 0
    /\ collected = <<>>
    /\ api_result = NoResult
    /\ arg_string \in (IF op = "classify" THEN ClassifyInputs ELSE {""})
    /\ arg_components \in (IF op = "PhoSegment" THEN ComponentLists
                           ELSE IF op = "compare" THEN [1..2 -> Elements]
                           ELSE {<<>>})
    /\ input_is_str \in (IF op \in {"segment_generator", "get_bases"}
                         THEN BOOLEAN ELSE {TRUE})
    /\ input_isinstance_str \in
           (IF op \in {"segment_generator", "get_bases"} /\ ~input_is_str
            THEN BOOLEAN ELSE {TRUE})
    /\ input_str \in (IF op \in {"segment_generator", "get_bases"}
                         /\ input_isinstance_str
                      THEN Inputs ELSE {<<>>})

\* PhoElement(string)
ConstructElement ==
    /\ op = "classify"
    /\ api_pc = "start"
    /\ element' = PhoElement(arg_string)
    /\ api_pc' = "constructed"
    /\ UNCHANGED <<op, input_isinstance_str, arg_string, arg_components, ipa_parser_list, seg_index,
                   collected, api_result>>
    /\ UNCHANGED <<parserVars, parVars>>

\* element.classify()
CallClassify ==
    /\ op = "classify"
    /\ api_pc = "constructed"
    /\ api_result' =
           IF classify(element) = AttributeErrorRaised
           THEN Raised("AttributeError", "")
           ELSE IF classify(element) = None
                THEN Returned("None", None)
                ELSE Returned("element", classify(element))
    /\ api_pc' = "done"
    /\ UNCHANGED <<op, input_isinstance_str, arg_string, arg_components, element, ipa_parser_list,
                   seg_index, collected>>
    /\ UNCHANGED <<parserVars, parVars>>

\* PhoSegment(components)
ConstructSegment ==
    /\ op = "PhoSegment"
    /\ api_pc = "start"
    /\ api_result' =
           IF PhoSegment(arg_components).raised # ""
           THEN Raised(PhoSegment(arg_components).raised, "")
           ELSE Returned("segment", PhoSegment(arg_components))
    /\ api_pc' = "done"
    /\ UNCHANGED <<op, input_isinstance_str, arg_string, arg_components, element, ipa_parser_list,
                   seg_index, collected>>
    /\ UNCHANGED <<parserVars, parVars>>

\* The first next() of the generator: ipa_parser runs, and what it raises
\* reaches the caller.
GenStart ==
    /\ op = "segment_generator"
    /\ api_pc = "start"
    /\ LET r == GenParse(input_is_str, input_str) IN
       IF r.kind \in {"ValueError", "AttributeError"}
       THEN /\ api_result' = r
            /\ api_pc' = "done"
            /\ UNCHANGED ipa_parser_list
       ELSE /\ ipa_parser_list' = IterList(r)
            /\ api_pc' = "loop"
            /\ UNCHANGED api_result
    /\ UNCHANGED <<op, input_isinstance_str, arg_string, arg_components, element, seg_index, collected>>
    /\ UNCHANGED <<parserVars, parVars>>

\* The entry the loop reads next.
NextEntry == ipa_parser_list[seg_index + 1]

InLoop(f) == op = f /\ api_pc = "loop" /\ seg_index < Len(ipa_parser_list)

\* One iteration of the loop of segment_generator.
GenIterate ==
    LET o == GenEntry(collected, NextEntry) IN
    /\ collected' = o.yielded
    /\ IF o.stop
       THEN /\ api_pc' = "done"
            /\ api_result' = IF o.raised # ""
                             THEN Raised(o.raised, "")
                             ELSE Returned("exhausted", o.yielded)
            /\ UNCHANGED seg_index
       ELSE /\ seg_index' = seg_index + 1
            /\ UNCHANGED <<api_pc, api_result>>
    /\ UNCHANGED <<op, input_isinstance_str, arg_string, arg_components, element, ipa_parser_list>>
    /\ UNCHANGED <<parserVars, parVars>>

\* An entry with a base: the segment is yielded.
GenYield ==
    /\ InLoop("segment_generator")
    /\ HasBase(NextEntry)
    /\ GenIterate

\* An entry without a base: skipped.
GenSkip ==
    /\ InLoop("segment_generator")
    /\ ~HasBase(NextEntry)
    /\ GenIterate

\* The end of the list: the generator is exhausted.
GenExhausted ==
    /\ op = "segment_generator"
    /\ api_pc = "loop"
    /\ seg_index = Len(ipa_parser_list)
    /\ api_pc' = "done"
    /\ api_result' = Returned("exhausted", collected)
    /\ UNCHANGED <<op, input_isinstance_str, arg_string, arg_components, element, ipa_parser_list,
                   seg_index, collected>>
    /\ UNCHANGED <<parserVars, parVars>>

\* get_bases: if not isinstance(input_str, str): return [""]
BasesNotStr ==
    /\ op = "get_bases"
    /\ api_pc = "start"
    /\ ~input_isinstance_str
    /\ api_pc' = "done"
    /\ api_result' = BasesSentinel
    /\ UNCHANGED <<op, input_isinstance_str, arg_string, arg_components, element, ipa_parser_list,
                   seg_index, collected>>
    /\ UNCHANGED <<parserVars, parVars>>

\* get_bases: bases_list = []; ipa_parser_list = ipa_parser(input_str);
\* ipa_parser tests type(input_str) != str, so an instance of a subclass of
\* str passes the isinstance test here and is parsed to "".
BasesStart ==
    /\ op = "get_bases"
    /\ api_pc = "start"
    /\ input_isinstance_str
    /\ LET r == CallParser(input_is_str, input_str) IN
       IF r.kind \in {"ValueError", "AttributeError"}
       THEN /\ api_result' = r
            /\ api_pc' = "done"
            /\ UNCHANGED ipa_parser_list
       ELSE /\ ipa_parser_list' = IterList(r)
            /\ api_pc' = "loop"
            /\ UNCHANGED api_result
    /\ collected' = <<>>
    /\ UNCHANGED <<op, input_isinstance_str, arg_string, arg_components, element, seg_index>>
    /\ UNCHANGED <<parserVars, parVars>>

\* One iteration of the loop of get_bases.
BasesIterate ==
    LET o == BasesEntry(collected, NextEntry) IN
    /\ collected' = o.bases_list
    /\ IF o.returns \/ o.raised # ""
       THEN /\ api_pc' = "done"
            /\ api_result' = IF o.raised # ""
                             THEN Raised(o.raised, "")
                             ELSE BasesSentinel
            /\ UNCHANGED seg_index
       ELSE /\ seg_index' = seg_index + 1
            /\ UNCHANGED <<api_pc, api_result>>
    /\ UNCHANGED <<op, input_isinstance_str, arg_string, arg_components, element, ipa_parser_list>>
    /\ UNCHANGED <<parserVars, parVars>>

\* An empty entry.
BasesEmptyEntry ==
    /\ InLoop("get_bases")
    /\ NextEntry = <<>>
    /\ BasesIterate

\* An entry with a base: its first base is appended.
BasesAppend ==
    /\ InLoop("get_bases")
    /\ HasBase(NextEntry)
    /\ BasesIterate

\* A non-empty entry without a base: skipped.
BasesSkip ==
    /\ InLoop("get_bases")
    /\ NextEntry # <<>>
    /\ ~HasBase(NextEntry)
    /\ BasesIterate

\* return bases_list
BasesReturn ==
    /\ op = "get_bases"
    /\ api_pc = "loop"
    /\ seg_index = Len(ipa_parser_list)
    /\ api_pc' = "done"
    /\ api_result' = Returned("bases", collected)
    /\ UNCHANGED <<op, input_isinstance_str, arg_string, arg_components, element, ipa_parser_list,
                   seg_index, collected>>
    /\ UNCHANGED <<parserVars, parVars>>

\* self == other and self != other on two elements; when __eq__ and __ne__
\* return NotImplemented the comparison is the one of identity.
CompareElements ==
    /\ op = "compare"
    /\ api_pc = "start"
    /\ api_result' =
           IF arg_components[2] = None
           THEN Returned("compared", [eq |-> FALSE, ne |-> TRUE])
           ELSE IF HasUnsetAttr(arg_components[1]) \/ HasUnsetAttr(arg_components[2])
                THEN Raised("AttributeError", "")
                ELSE Returned("compared",
                         [eq |-> __eq__(arg_components[1], arg_components[2]),
                          ne |-> __ne__(arg_components[1], arg_components[2])])
    /\ api_pc' = "done"
    /\ UNCHANGED <<op, input_isinstance_str, arg_string, arg_components, element, ipa_parser_list,
                   seg_index, collected>>
    /\ UNCHANGED <<parserVars, parVars>>

NextApi ==
    \/ CompareElements
    \/ ConstructElement
    \/ CallClassify
    \/ ConstructSegment
    \/ GenStart
    \/ GenYield
    \/ GenSkip
    \/ GenExhausted
    \/ BasesNotStr
    \/ BasesStart
    \/ BasesEmptyEntry
    \/ BasesAppend
    \/ BasesSkip
    \/ BasesReturn

SpecApi == InitApi /\ [][NextApi]_vars

----------------------------------------------------------------------------
(* C12 *)

\* A call PhoSegment(arg_components) that has ended.
SegmentCallDone == op = "PhoSegment" /\ api_pc = "done"

\* The number of components of the given role.
NumOfRole(components, role) ==
    Cardinality({k \in 1..Len(components) : components[k].role = role})

\* C12: PhoSegment(components) raises ValueError exactly when no component
\* has role base, and constructs the segment otherwise.
C12_RaisesIffNoBase ==
    SegmentCallDone =>
        /\ api_result.kind \in {"ValueError", "segment"}
        /\ api_result.kind = "ValueError" <=> NumOfRole(arg_components, "base") = 0

\* A list with two bases and a boundary was accepted.
C12_Witness ==
    /\ SegmentCallDone
    /\ api_result.kind = "segment"
    /\ NumOfRole(arg_components, "base") = 2
    /\ NumOfRole(arg_components, "boundary") = 1

----------------------------------------------------------------------------
(* C13 *)

\* C13 as stated: every constructed segment holds exactly one component of
\* role base.
C13_ExactlyOneBase ==
    (SegmentCallDone /\ api_result.kind = "segment")
        => NumOfRole(api_result.value.components, "base") = 1

\* C13 as the code has it: every constructed segment holds at least one
\* component of role base, and its base list is not empty.
C13_AtLeastOneBase ==
    (SegmentCallDone /\ api_result.kind = "segment")
        => /\ NumOfRole(api_result.value.components, "base") >= 1
           /\ Len(api_result.value.base) >= 1

\* A segment with three bases was constructed.
C13_Witness ==
    /\ SegmentCallDone
    /\ api_result.kind = "segment"
    /\ NumOfRole(api_result.value.components, "base") = 3

----------------------------------------------------------------------------
(* C14 *)

\* C14: for a list with a base, base, left_diacritics and right_diacritics
\* are the sub-lists, in order, of the components of role base,
\* diacritic_left and diacritic_right, components is the list itself, and
\* string is the symbols of the components in order; a left diacritic and a
\* consonant give base = [consonant], left_diacritics = [diacritic] and no
\* right diacritic.
C14_DerivedFields ==
    (SegmentCallDone /\ NumOfRole(arg_components, "base") >= 1) =>
        /\ api_result.kind = "segment"
        /\ api_result.value.components = arg_components
        /\ api_result.value.base =
               SelectSeq(arg_components, LAMBDA c : c.role = "base")
        /\ api_result.value.left_diacritics =
               SelectSeq(arg_components, LAMBDA c : c.role = "diacritic_left")
        /\ api_result.value.right_diacritics =
               SelectSeq(arg_components, LAMBDA c : c.role = "diacritic_right")
        /\ Len(api_result.value.string) = Len(arg_components)
        /\ \A k \in 1..Len(arg_components) :
               api_result.value.string[k] = arg_components[k].symbol
        /\ arg_components = <<PhoDiacritic("n"), PhoConsonant("t")>> =>
               /\ api_result.value.base = <<PhoConsonant("t")>>
               /\ api_result.value.left_diacritics = <<PhoDiacritic("n")>>
               /\ api_result.value.right_diacritics = <<>>

\* A segment of a left diacritic, a base and a right diacritic was
\* constructed.
C14_Witness ==
    /\ SegmentCallDone
    /\ api_result.kind = "segment"
    /\ arg_components = <<PhoDiacritic("n"), PhoConsonant("t"), PhoDiacritic("h")>>
    /\ api_result.value.left_diacritics = <<PhoDiacritic("n")>>
    /\ api_result.value.right_diacritics = <<PhoDiacritic("h")>>

----------------------------------------------------------------------------
(* C15 *)

\* A call of the given function on a string that ipa_parser turns into a
\* transcript has ended.
TokenizedCallDone(f) ==
    /\ op = f
    /\ api_pc = "done"
    /\ input_is_str
    /\ ipa_parser(input_str).kind = "transcript"

\* The entries of a transcript that hold a base, in order.
EntriesWithBase(transcript) == SelectSeq(transcript, HasBase)

\* C15: for an input that ipa_parser turns into a transcript,
\* segment_generator yields the segment of each entry that holds a base, in
\* the order of the transcript, and nothing else; it raises nothing.
C15_SegmentStream ==
    TokenizedCallDone("segment_generator") =>
        LET entries == EntriesWithBase(ipa_parser(input_str).value) IN
        /\ api_result.kind = "exhausted"
        /\ Len(api_result.value) = Len(entries)
        /\ \A k \in 1..Len(entries) :
               /\ api_result.value[k].raised = ""
               /\ api_result.value[k].components = entries[k]

\* Two segments were yielded, and a non-empty entry without a base between
\* them was skipped.
C15_Witness ==
    /\ TokenizedCallDone("segment_generator")
    /\ Len(api_result.value) = 2
    /\ \E j, k \in 2..Len(ipa_parser_list) :
           /\ j < k
           /\ HasBase(ipa_parser_list[1])
           /\ ipa_parser_list[j] # <<>> /\ ~HasBase(ipa_parser_list[j])
           /\ HasBase(ipa_parser_list[k])

----------------------------------------------------------------------------
(* C16 *)

\* A call PhoElement(arg_string).classify() that has ended.
ClassifyCallDone == op = "classify" /\ api_pc = "done"

\* The record has one of the combinations of role and type the mapping
\* names.
HasNamedVariant(record) ==
    \/ record.Role \in {"diacritic_left", "diacritic_right", "compound_right",
                        "boundary", "stress"}
    \/ record.Role = "base" /\ record.Type \in {"Consonant", "Implosive", "Click", "Vowel"}

\* The variant the mapping gives a record of the table.
VariantOf(record) ==
    CASE record.Role = "base" /\ record.Type \in {"Consonant", "Implosive", "Click"}
             -> "consonant"
      [] record.Role = "base" /\ record.Type = "Vowel" -> "vowel"
      [] record.Role \in {"diacritic_left", "diacritic_right"} -> "diacritic"
      [] record.Role = "compound_right" -> "ligature"
      [] record.Role = "boundary" -> "boundary"
      [] record.Role = "stress" -> "stress"

\* C16: classify gives a whitespace character the boundary variant with the
\* record of the word boundary, and a character of the table the variant of
\* its record, with the character, the role and the type of the record.
C16_ClassificationMapping ==
    (/\ ClassifyCallDone
     /\ \/ IsSpace(arg_string)
        \/ arg_string \in IpaIndex /\ HasNamedVariant(ipa_df[arg_string])) =>
        /\ api_result.kind = "element"
        /\ IF IsSpace(arg_string)
           THEN /\ api_result.value.subclass = "boundary"
                /\ api_result.value.string = " "
                /\ api_result.value.role = "boundary"
                /\ api_result.value.type = "Suprasegmental"
           ELSE /\ api_result.value.subclass = VariantOf(ipa_df[arg_string])
                /\ api_result.value.string = arg_string
                /\ api_result.value.role = ipa_df[arg_string].Role
                /\ api_result.value.type = ipa_df[arg_string].Type

\* A base of type Click was classified as a consonant.
C16_Witness ==
    /\ ClassifyCallDone
    /\ arg_string \in IpaIndex
    /\ ipa_df[arg_string].Type = "Click"
    /\ api_result.kind = "element"
    /\ api_result.value.subclass = "consonant"

----------------------------------------------------------------------------
(* C17 *)

\* A non-whitespace character absent from the table.
IsUnknownChar(char) == ~IsSpace(char) /\ char \notin IpaIndex

\* C17 as stated: for a character absent from the table the lookup fails
\* with an error that reaches the caller, and no element is produced.
C17_UnknownLookupPropagates ==
    (op = "classify" /\ IsUnknownChar(arg_string) /\ api_pc # "start") =>
        /\ element = None
        /\ api_pc = "done" => api_result.kind \in {"ValueError", "AttributeError"}

\* C17 as the code has it: PhoElement recovers from the failed lookup and
\* produces an element that has the character as string and symbol and no
\* role and no type; classify on it raises AttributeError and returns no
\* element.
C17_UnknownRecoveredThenAttributeError ==
    (op = "classify" /\ IsUnknownChar(arg_string)) =>
        /\ api_pc # "start" =>
               /\ element.string = arg_string
               /\ element.symbol = arg_string
               /\ element.role = NoAttr
               /\ element.type = NoAttr
        /\ api_pc = "done" => api_result = Raised("AttributeError", "")

\* classify was called on the element of an unknown character and raised.
C17_Witness ==
    /\ ClassifyCallDone
    /\ IsUnknownChar(arg_string)
    /\ element.symbol = arg_string
    /\ api_result.kind = "AttributeError"

----------------------------------------------------------------------------
(* C18 *)

\* The input is one ipa_parser fails on according to the claim: it holds an
\* unknown character or the role switcher.
TokenizingFails ==
    /\ input_is_str
    /\ \/ ContainsRoleSwitcher(input_str)
       \/ UnknownPositions(Trimmed) # {}

\* C18: whenever tokenizing the input fails, segment_generator raises that
\* failure to its caller and never ends as an empty or partial stream.
C18_FailurePropagates ==
    (op = "segment_generator" /\ TokenizingFails /\ api_pc = "done") =>
        /\ api_result.kind = "ValueError"
        /\ collected = <<>>

----------------------------------------------------------------------------
(* C20 *)

\* C20: for a string that ipa_parser turns into a transcript, get_bases
\* returns the first base of each entry that holds a base, in the order of
\* the transcript, whatever the other entries are.
C20_BasesOfAllSegments ==
    TokenizedCallDone("get_bases") =>
        LET entries == EntriesWithBase(ipa_parser(input_str).value) IN
        /\ api_result.kind = "bases"
        /\ Len(api_result.value) = Len(entries)
        /\ \A k \in 1..Len(entries) :
               api_result.value[k] =
                   SelectSeq(entries[k], LAMBDA c : c.role = "base")[1]

----------------------------------------------------------------------------
(* C22 *)

\* A character of the table that attaches to the right of a base.
IsRightAttachingChar(char) ==
    char \in IpaIndex /\ ipa_df[char].Role \in {"diacritic_right", "compound_right"}

\* The next iteration scans a right-attaching character while has_base is
\* true.
RightAttachingAfterBase == Scanning /\ has_base /\ IsRightAttachingChar(NextChar)

\* C22: a character of role diacritic_right or compound_right scanned while
\* has_base is true is appended to the buffer; the step leaves the transcript
\* as it is and has_base true; a base followed by right diacritics only is
\* returned as one entry.
C22_RightAttachingContinuation ==
    /\ [][RightAttachingAfterBase =>
              /\ seg_memory' = Append(seg_memory, classify(PhoElement(NextChar)))
              /\ transcript_memory' = transcript_memory
              /\ has_base'
              /\ pc' = "scan"]_vars
    /\ []((/\ pc = "done"
           /\ input_is_str
           /\ Len(Trimmed) >= 1
           /\ Trimmed = input_str
           /\ IsBaseChar(Trimmed[1])
           /\ \A k \in 2..Len(Trimmed) : IsRightDiacriticChar(Trimmed[k]))
          => result = Returned("transcript",
                 << [k \in 1..Len(Trimmed) |-> classify(PhoElement(Trimmed[k]))] >>))

\* A base with three right diacritics was returned as one entry.
C22_Witness ==
    /\ ReturnedTranscript
    /\ Len(input_str) = 4
    /\ IsBaseChar(input_str[1])
    /\ \A k \in 2..4 : IsRightDiacriticChar(input_str[k])
    /\ Len(result.value) = 1
    /\ Len(result.value[1]) = 4

----------------------------------------------------------------------------
(* C23 *)

\* The next iteration scans a boundary or stress character while has_base is
\* true.
MarkerAfterBase == Scanning /\ IsMarker(NextChar) /\ has_base

\* C23: a boundary or stress character scanned while has_base is true
\* appends two entries to the transcript, the buffer and then the singleton
\* of the element, empties the buffer and sets has_base to false.
C23_MarkerAfterBaseOrder ==
    [][MarkerAfterBase =>
           /\ Len(transcript_memory') = Len(transcript_memory) + 2
           /\ SubSeq(transcript_memory', 1, Len(transcript_memory)) = transcript_memory
           /\ transcript_memory'[Len(transcript_memory) + 1] = seg_memory
           /\ HasBase(transcript_memory'[Len(transcript_memory) + 1])
           /\ transcript_memory'[Len(transcript_memory) + 2] =
                  <<classify(PhoElement(NextChar))>>
           /\ seg_memory' = <<>>
           /\ ~has_base']_vars

\* A marker was scanned after a base with a right diacritic: the segment is
\* the entry before the marker's.
C23_Witness ==
    /\ pc = "scan"
    /\ i >= 3
    /\ IsMarker(chars[i])
    /\ Len(transcript_memory) >= 2
    /\ Len(transcript_memory[Len(transcript_memory) - 1]) = 2
    /\ HasBase(transcript_memory[Len(transcript_memory) - 1])
    /\ Last(transcript_memory) = <<classify(PhoElement(chars[i]))>>
    /\ seg_memory = <<>>
    /\ ~has_base

----------------------------------------------------------------------------
(* C24 *)

IsMarkerElement(ph) == ph.role \in {"boundary", "stress"}

\* C24: in every returned transcript an element of role boundary or stress,
\* the word boundary of a whitespace run included, is the only element of
\* its entry.
C24_BoundaryIsolation ==
    ReturnedTranscript =>
        \A k \in 1..Len(result.value) :
            (\E j \in 1..Len(result.value[k]) : IsMarkerElement(result.value[k][j]))
                => Len(result.value[k]) = 1

\* A transcript with a word boundary, a marker scanned while a diacritic was
\* pending, and an entry that holds a base.
C24_Witness ==
    /\ ReturnedTranscript
    /\ \E k \in 1..Len(result.value) : result.value[k] = WordBoundaryEntry
    /\ \E k \in 1..Len(result.value) :
           /\ Len(result.value[k]) = 1
           /\ IsMarkerElement(result.value[k][1])
           /\ result.value[k] # WordBoundaryEntry
    /\ \E k \in 1..Len(result.value) : HasBase(result.value[k])
    /\ ~IsMarker(Trimmed[1])
    /\ IsMarker(Trimmed[2])
    /\ ~IsBaseChar(Trimmed[1])

----------------------------------------------------------------------------
(* C25 *)

\* C25: during the scan has_base is true exactly when the buffer holds an
\* element of role base, the buffer never holds more than one, it never
\* holds an element of role boundary or stress, and after a whitespace
\* step with has_base false the buffer is empty.
C25_AccumulatorInvariant ==
    pc = "scan" =>
        /\ has_base <=> NumOfRole(seg_memory, "base") >= 1
        /\ NumOfRole(seg_memory, "base") <= 1
        /\ \A k \in 1..Len(seg_memory) : ~IsMarkerElement(seg_memory[k])
        /\ (i >= 1 /\ IsSpace(chars[i]) /\ ~has_base) => seg_memory = <<>>

\* After a word boundary the buffer holds a base and one more element.
C25_Witness ==
    /\ pc = "scan"
    /\ has_base
    /\ Len(seg_memory) = 2
    /\ \E k \in 1..Len(transcript_memory) : transcript_memory[k] = WordBoundaryEntry

----------------------------------------------------------------------------
(* C26 *)

\* The positions of an entry that hold a base.
BasePositions(entry) == {k \in 1..Len(entry) : entry[k].role = "base"}

\* C26: every entry of a returned transcript holds at most one base, and
\* every element after the base has role diacritic_right or compound_right.
C26_EntryShape ==
    ReturnedTranscript =>
        \A k \in 1..Len(result.value) :
            /\ Cardinality(BasePositions(result.value[k])) <= 1
            /\ \A b \in BasePositions(result.value[k]) :
                   \A j \in (b + 1)..Len(result.value[k]) :
                       result.value[k][j].role \in {"diacritic_right", "compound_right"}

\* An entry of a left diacritic, a base and a ligature, followed by an entry
\* that starts with a base.
C26_Witness ==
    /\ ReturnedTranscript
    /\ Len(result.value) = 2
    /\ Len(result.value[1]) = 3
    /\ result.value[1][1].role = "diacritic_left"
    /\ result.value[1][2].role = "base"
    /\ result.value[1][3].role = "compound_right"
    /\ result.value[2][1].role = "base"

----------------------------------------------------------------------------
(* C27 *)

\* The number of positions of a sequence that hold x.
Count(s, x) == Cardinality({k \in 1..Len(s) : s[k] = x})

NumNonWs(s) == Cardinality({k \in 1..Len(s) : ~IsSpace(s[k])})

\* C27: in a returned transcript every non-whitespace character of the
\* trimmed input is the symbol of as many elements as it has occurrences,
\* every element that is no word boundary is the classified element of its
\* character, and the number of elements is the number of non-whitespace
\* characters plus the number of whitespace runs.
C27_Conservation ==
    ReturnedTranscript =>
        LET flat == Concat(result.value) IN
        /\ Len(flat) = NumNonWs(Trimmed) + NumWsRuns(Trimmed)
        /\ Count(flat, PhoBoundary(" ")) = NumWsRuns(Trimmed)
        /\ \A c \in Range(Trimmed) :
               ~IsSpace(c) => Count(flat, classify(PhoElement(c))) = Count(Trimmed, c)

\* A transcript of an input in which a diacritic was pending when a marker
\* was scanned, with a whitespace run and a repeated character.
C27_Witness ==
    /\ ReturnedTranscript
    /\ Len(Trimmed) = 4
    /\ ~IsMarker(Trimmed[1])
    /\ ~IsBaseChar(Trimmed[1])
    /\ IsMarker(Trimmed[2])
    /\ IsSpace(Trimmed[3])
    /\ Trimmed[4] = Trimmed[1]
    /\ Len(Concat(result.value)) = 4

----------------------------------------------------------------------------
(* C28 *)

\* The comparison of two classified elements has ended.
CompareDone == op = "compare" /\ api_pc = "done"

\* C28: of a == b and a != b exactly one holds for any two classified
\* elements, a == b being the equality of string, symbol, type and role.
C28_NeNegatesEq ==
    CompareDone =>
        /\ api_result.value.eq <=>
               /\ arg_components[1].string = arg_components[2].string
               /\ arg_components[1].symbol = arg_components[2].symbol
               /\ arg_components[1].type = arg_components[2].type
               /\ arg_components[1].role = arg_components[2].role
        /\ api_result.value.ne <=> ~api_result.value.eq

----------------------------------------------------------------------------
(* C29 *)

\* C29: classify returns an element for every record of the table, whatever
\* its role and type.
C29_ClassifyTotal ==
    (ClassifyCallDone /\ arg_string \in IpaIndex) =>
        /\ api_result.kind = "element"
        /\ api_result.value.string = arg_string

----------------------------------------------------------------------------
(* Two calls of ipa_parser that run side by side, one loop iteration at a
   time *)

Callers == {1, 2}

\* The characters the inputs of these calls are made of: a base, a
\* boundary, whitespace and an unknown character.
ParAlphabet == {"t", ".", " ", "?"}

ParInputs == UNION {[1..n -> ParAlphabet] : n \in 0..MaxParLen}

\* A call of ipa_parser that has not started: its argument and its own
\* locals.
NewCall(is_str, s) ==
    [input_is_str |-> is_str, input_str |-> s, pc |-> "start", chars |-> <<>>,
     i |-> 0, st |-> InitLocals, result |-> NoResult]

\* Mutant of LocalsOf: last_char_memory is one variable shared by the calls.
LocalsOf_SharedLastChar(cs, c) ==
    [cs[c].st EXCEPT !.last_char_memory = cs[1].st.last_char_memory]

\* The locals an iteration of call c reads: transcript_memory, seg_memory,
\* last_char_memory, has_base and word_count are local variables of the
\* call.
LocalsOf(cs, c) == cs[c].st

InitPar ==
    /\ op = "parallel"
    /\ input_is_str = TRUE
    /\ input_str = <<>>
    /\ ParserIdle
    /\ ApiIdle
    /\ calls \in [Callers -> {NewCall(TRUE, s) : s \in ParInputs}
                                 \cup {NewCall(FALSE, <<>>)}]

\* Call c runs up to its for loop, or returns before it.
CallBegin(c) ==
    /\ op = "parallel"
    /\ calls[c].pc = "start"
    /\ calls' = [calls EXCEPT ![c] =
           IF ~calls[c].input_is_str
           THEN [@ EXCEPT !.pc = "done", !.result = Returned("not_str", <<>>)]
           ELSE IF ContainsRoleSwitcher(ReSub(calls[c].input_str))
                THEN [@ EXCEPT !.pc = "done", !.result = RoleSwitcherReturn]
                ELSE [@ EXCEPT !.pc = "scan",
                               !.chars = Strip(ReSub(calls[c].input_str)),
                               !.i = 0,
                               !.st = InitLocals]]
    /\ UNCHANGED <<parserVars, apiVars>>

\* Call c runs one iteration of its for loop.
CallIterate(c) ==
    /\ op = "parallel"
    /\ calls[c].pc = "scan"
    /\ calls[c].i < Len(calls[c].chars)
    /\ LET o == LoopBody(LocalsOf(calls, c), calls[c].chars[calls[c].i + 1]) IN
       calls' = [calls EXCEPT ![c] =
           IF o.raised = ""
           THEN [@ EXCEPT !.st = o.st, !.i = @ + 1]
           ELSE [@ EXCEPT !.st = o.st, !.pc = "done",
                          !.result = Raised(o.raised, o.char)]]
    /\ UNCHANGED <<parserVars, apiVars>>

\* Call c stores its final segment and returns.
CallReturn(c) ==
    /\ op = "parallel"
    /\ calls[c].pc = "scan"
    /\ calls[c].i = Len(calls[c].chars)
    /\ calls' = [calls EXCEPT ![c] =
           [@ EXCEPT !.st.transcript_memory = FinalFlush(LocalsOf(calls, c)),
                     !.result = Returned("transcript", FinalFlush(LocalsOf(calls, c))),
                     !.pc = "done"]]
    /\ UNCHANGED <<parserVars, apiVars>>

NextPar ==
    \/ \E c \in Callers : CallBegin(c)
    \/ \E c \in Callers : CallIterate(c)
    \/ \E c \in Callers : CallReturn(c)

SpecPar == InitPar /\ [][NextPar]_vars

----------------------------------------------------------------------------
(* C21 *)

RECURSIVE LocalsAfter(_, _)
\* The locals of a call that runs alone, after n iterations over cs that
\* raised nothing.
LocalsAfter(cs, n) ==
    IF n = 0 THEN InitLocals ELSE LoopBody(LocalsAfter(cs, n - 1), cs[n]).st

\* C21: when two calls of ipa_parser are interleaved one iteration at a
\* time, each call ends with what it returns or raises when it runs alone,
\* at every iteration its locals are those of the call running alone, and
\* a step of one call leaves the state of the other as it is.
C21_IndependentCalls ==
    /\ [](\A c \in DOMAIN calls :
              /\ calls[c].pc = "done" =>
                     calls[c].result = CallParser(calls[c].input_is_str,
                                                  calls[c].input_str)
              /\ calls[c].pc = "scan" =>
                     /\ calls[c].chars = Strip(ReSub(calls[c].input_str))
                     /\ calls[c].st = LocalsAfter(calls[c].chars, calls[c].i))
    /\ [][\A c, d \in DOMAIN calls :
              (c # d /\ calls'[c] # calls[c]) => calls'[d] = calls[d]]_vars

\* Both calls are in the middle of their loops, one after a base and the
\* other after a whitespace character, each with entries in its transcript.
C21_Witness ==
    /\ op = "parallel"
    /\ \A c \in Callers : calls[c].pc = "scan" /\ calls[c].i = 2
    /\ calls[1].st.has_base
    /\ ~calls[2].st.has_base
    /\ IsSpace(calls[2].st.last_char_memory)
    /\ calls[1].st.transcript_memory # <<>>
    /\ calls[2].st.transcript_memory # calls[1].st.transcript_memory

====
